---------------------------- MODULE Spec2Model ----------------------------
(***************************************************************************)
(* A model of Connect4.py: the Connect4 board (copy, get_possible_moves,   *)
(* make_move, is_terminal, evaluate), the search tree Node (select_child,  *)
(* expand, simulate, backpropagate), the search loop mcts and the driver   *)
(* play_game.                                                              *)
(*                                                                         *)
(* Seven specifications share the variables:                               *)
(*   BoardSpec  calls of make_move on boards reached by legal play, with   *)
(*              the rows of every board kept on a heap so that sharing     *)
(*              between a board and its copy would be visible;             *)
(*   LineSpec   boards built by make_move calls, one scripted call at a    *)
(*              time, that put a line in every 4-cell window, or fill the  *)
(*              board column by column;                                    *)
(*   Spec       play_game: runs of mcts on a tree of Nodes;                *)
(*   RunSpec    one longer run of mcts on a new tree;                      *)
(*   GameSpec   play_game from the new tree to the end of the game;        *)
(*   ExpandSpec one call of expand on a position of a game;                *)
(*   TerminalSpec  one run of mcts on a root whose state is terminal.      *)
(***************************************************************************)
EXTENDS Integers, Sequences, FiniteSets, TLC

VARIABLES
    heap,      \* row address -> row (a list of 7 cells): the rows of the live boards
    origin,    \* the Connect4 object `prev` was made from (NoObject at first)
    prev,      \* the Connect4 object `game` was made from (NoObject at first)
    game,      \* the Connect4 object holding the current position
    ret,       \* the object the last make_move call returned (NoObject: none)
    call,      \* the last make_move call: its arguments and how it ended
    pre,       \* the receiver and its predecessor, by value, as they were before the last call
    script,    \* LineSpec: the calls still to be made
    nodes,     \* the Node objects made so far; a Node's id is its place in the list
    root,      \* play_game: root
    pc,        \* where play_game and mcts stand
    done,      \* mcts: the iterations of the current run that are complete
    node,      \* mcts: node
    sim_state, \* simulate: state
    sim_player, \* simulate: player
    best_child, \* play_game: best_child, the Node the last run returned (0: none)
    runs,      \* the runs of mcts that have returned
    atCall     \* the visits of the root's children, summed, when the current run was called

boardVars == <<heap, origin, prev, game, ret, call, pre, script>>

treeVars == <<nodes, root, pc, done, node, sim_state, sim_player, best_child, runs, atCall>>

vars == <<boardVars, treeVars>>

---------------------------------------------------------------------------
(* Bounds of the model *)

\* BoardSpec: the caller chooses freely among the legal columns while the
\* board holds fewer than BoardFreePlies marks, and the first legal column after.
BoardFreePlies == 2

\* Spec: the iterations of one run of mcts (play_game asks for 1000)
Iterations == 2

\* RunSpec: the iterations of its one run of mcts
RunIterations == 9

\* Spec: the runs of mcts play_game makes before the model stops
MaxRuns == 2

\* GameSpec: the iterations of each run of mcts
GameIterations == 2

\* GameSpec: the rollouts of the first GameFreeRuns runs choose as those of
\* Spec do, the later ones take the first legal column throughout.
GameFreeRuns == 1

\* Spec: a rollout chooses among the first RolloutWidth legal columns for its
\* first RolloutFreePlies moves, and takes the first legal column after.
RolloutFreePlies == 1

RolloutWidth == 2

---------------------------------------------------------------------------
(* Program constants *)

ROWS == 6
COLS == 7

Empty == " "

Marks == {"X", "O"}

\* A variant of the turn change that keeps the player
Opponent_same(player) == player

\* 'O' if player == 'X' else 'X'
Opponent(player) == IF player = "X" THEN "O" ELSE "X"

Min(S) == CHOOSE x \in S : \A y \in S : x <= y

Max(S) == CHOOSE x \in S : \A y \in S : y <= x

\* range(a, b) as the list a, a+1, .., b-1
PyRange(a, b) == [i \in 1..(b - a) |-> a + i - 1]

\* A Python list of length n accepts the indices -n .. n-1.
ValidIndex(i, n) == -n <= i /\ i < n

\* The position a valid Python index denotes: a negative index counts from the end.
PyIndex(i, n) == IF i < 0 THEN i + n ELSE i

---------------------------------------------------------------------------
(* Boards by value: a list of ROWS rows, each a list of COLS cells.  The    *)
(* source's indices start at 0; Cell keeps them.                           *)

Cell(board, row, col) == board[row + 1][col + 1]

EmptyRow == [c \in 1..COLS |-> Empty]

EmptyBoard == [r \in 1..ROWS |-> EmptyRow]

\* Connect4.__init__ by value
NewState == [board |-> EmptyBoard, player |-> "X"]

\* The number of marks on a board
MarkCount(board) == Cardinality({<<r, c>> \in (0..ROWS-1) \X (0..COLS-1) : Cell(board, r, c) # Empty})

\* A variant of get_possible_moves that looks at the bottom row, board[5][col]
get_possible_moves_bottom(state) == SelectSeq(PyRange(0, 7), LAMBDA col : Cell(state.board, 5, col) = Empty)

\* Connect4.get_possible_moves: [col for col in range(7) if self.board[0][col] == ' ']
get_possible_moves(state) == SelectSeq(PyRange(0, 7), LAMBDA col : Cell(state.board, 0, col) = Empty)

---------------------------------------------------------------------------
(* Line detection.  A window is four cells from (r, c) in steps of (dr, dc). *)

\* The loop nest `for row in rows: for col in cols:` as the list of its windows, in order
WindowSeq(rows, cols, dr, dc) == [k \in 1..(Len(rows) * Len(cols)) |-> [r |-> rows[((k - 1) \div Len(cols)) + 1], c |-> cols[((k - 1) % Len(cols)) + 1], dr |-> dr, dc |-> dc]]

HorizontalWindows == WindowSeq(PyRange(0, 6), PyRange(0, 4), 0, 1)

VerticalWindows == WindowSeq(PyRange(0, 3), PyRange(0, 7), 1, 0)

PositiveSlopeWindows == WindowSeq(PyRange(0, 3), PyRange(0, 4), 1, 1)

\* A variant of the last loop that stops one column early: range(3, 6)
NegativeSlopeWindowsShort == WindowSeq(PyRange(0, 3), PyRange(3, 6), 1, -1)

NegativeSlopeWindows == WindowSeq(PyRange(0, 3), PyRange(3, 7), 1, -1)

\* board[row][col] != ' ' and all(board[row+i*dr][col+i*dc] == board[row][col] for i in range(4))
LineAt(board, w) ==
    /\ Cell(board, w.r, w.c) # Empty
    /\ \A i \in 0..3 : Cell(board, w.r + i * w.dr, w.c + i * w.dc) = Cell(board, w.r, w.c)

AnyLine(board, windows) == \E k \in 1..Len(windows) : LineAt(board, windows[k])

\* all(self.board[0][col] != ' ' for col in range(7))
TopRowFull(board) == \A col \in 0..6 : Cell(board, 0, col) # Empty

\* A variant of is_terminal without the test for a full board
is_terminal_lines_only(state) ==
    \/ AnyLine(state.board, HorizontalWindows)
    \/ AnyLine(state.board, VerticalWindows)
    \/ AnyLine(state.board, PositiveSlopeWindows)
    \/ AnyLine(state.board, NegativeSlopeWindows)

\* Connect4.is_terminal
is_terminal(state) ==
    \/ AnyLine(state.board, HorizontalWindows)
    \/ AnyLine(state.board, VerticalWindows)
    \/ AnyLine(state.board, PositiveSlopeWindows)
    \/ AnyLine(state.board, NegativeSlopeWindows)
    \/ TopRowFull(state.board)

\* A variant of evaluate's loops without the vertical one
ScanOrderNoVertical == HorizontalWindows \o PositiveSlopeWindows \o NegativeSlopeWindows

\* The order in which evaluate looks at the windows
ScanOrder == HorizontalWindows \o VerticalWindows \o PositiveSlopeWindows \o NegativeSlopeWindows

\* Connect4.evaluate: the first line found decides
evaluate(state) ==
    LET hits == {k \in 1..Len(ScanOrder) : LineAt(state.board, ScanOrder[k])}
    IN  IF hits = {} THEN 0
        ELSE LET w == ScanOrder[Min(hits)]
             IN  IF Cell(state.board, w.r, w.c) = "X" THEN 1 ELSE -1

---------------------------------------------------------------------------
(* Connect4 objects on the heap.  An object is [board, player] where board  *)
(* is the list of the addresses of its rows; heap is the list of the rows,  *)
(* a row's address being its place in it.  A new list goes to the end.      *)

NoObject == [board |-> <<>>, player |-> ""]

\* The value of an object: its rows read through the heap
Val(h, obj) == [board |-> [r \in 1..Len(obj.board) |-> h[obj.board[r]]], player |-> obj.player]

\* Connect4.__init__: six new rows of seven ' ', player 'X'
Connect4Init(h) == [heap |-> h \o EmptyBoard, obj |-> [board |-> [r \in 1..ROWS |-> Len(h) + r], player |-> "X"]]

\* A variant of copy that copies the list of rows and not the rows: self.board[:]
copy_shallow(h, self) == [heap |-> Connect4Init(h).heap, obj |-> [board |-> self.board, player |-> self.player]]

\* Connect4.copy: a new object whose rows are new lists, each equal to a row of the receiver
copy(h, self) ==
    LET made == Connect4Init(h)
    IN  [heap |-> made.heap \o [r \in 1..Len(self.board) |-> h[self.board[r]]],
         obj |-> [board |-> [r \in 1..Len(self.board) |-> Len(made.heap) + r], player |-> self.player]]

\* A variant of the loop of make_move that runs from row 0 up: range(6)
DropFromTop(h, board, col, player, row) ==
    LET free == {r \in 0..row : h[board[r + 1]][col + 1] = Empty}
    IN  IF free = {} THEN h ELSE [h EXCEPT ![board[Min(free) + 1]][col + 1] = player]

\* The loop of make_move from `row` down to 0: the first empty cell of the column takes the mark
RECURSIVE Drop(_, _, _, _, _)
Drop(h, board, col, player, row) ==
    IF row < 0 THEN h
    ELSE IF h[board[row + 1]][col + 1] = Empty
         THEN [h EXCEPT ![board[row + 1]][col + 1] = player]
         ELSE Drop(h, board, col, player, row - 1)

\* A variant of make_move whose loop starts one row too high: range(4, -1, -1)
make_move_from4(h, self, col, player) ==
    LET c == copy(h, self)
    IN  IF ~ValidIndex(col, COLS)
        THEN [outcome |-> "IndexError", heap |-> c.heap, obj |-> NoObject]
        ELSE [outcome |-> "returned",
              heap |-> Drop(c.heap, c.obj.board, PyIndex(col, COLS), player, 4),
              obj |-> [c.obj EXCEPT !.player = Opponent(player)]]

\* Connect4.make_move.  The first read new_board.board[5][col] raises IndexError
\* when col is no index of a row.
make_move(h, self, col, player) ==
    LET c == copy(h, self)
    IN  IF ~ValidIndex(col, COLS)
        THEN [outcome |-> "IndexError", heap |-> c.heap, obj |-> NoObject]
        ELSE [outcome |-> "returned",
              heap |-> Drop(c.heap, c.obj.board, PyIndex(col, COLS), player, 5),
              obj |-> [c.obj EXCEPT !.player = Opponent(player)]]

\* A variant of make_move that changes the player and places no mark
MoveValue_nomark(state, col, player) == [state EXCEPT !.player = Opponent(player)]

\* make_move on a state given by value, its result by value
MoveValue(state, col, player) ==
    LET res == make_move(state.board, [board |-> [r \in 1..ROWS |-> r], player |-> state.player], col, player)
    IN  Val(res.heap, res.obj)

---------------------------------------------------------------------------
(* Only the rows a live object refers to stay on the heap, in the order the *)
(* live objects list them.                                                  *)

\* The addresses of L, each once, in the order of their first occurrence
RECURSIVE Distinct(_, _)
Distinct(L, seen) ==
    IF L = <<>> THEN seen
    ELSE Distinct(Tail(L), IF \E i \in 1..Len(seen) : seen[i] = Head(L) THEN seen ELSE Append(seen, Head(L)))

\* The addresses of the rows of the objects of a list
RECURSIVE Addresses(_)
Addresses(objs) == IF objs = <<>> THEN <<>> ELSE Head(objs).board \o Addresses(Tail(objs))

\* The object with each row address replaced by its place in D
Renamed(D, obj) == [obj EXCEPT !.board = [r \in 1..Len(obj.board) |-> CHOOSE n \in 1..Len(D) : D[n] = obj.board[r]]]

LiveHeap(h, D) == [n \in 1..Len(D) |-> h[D[n]]]

---------------------------------------------------------------------------
(* BoardSpec: one game played by legal moves, and calls of make_move that   *)
(* are not legal moves, whose result the caller drops.                      *)

\* The variables of Spec, which BoardSpec and LineSpec leave alone
TreeIdle ==
    /\ nodes = <<>>
    /\ root = 0
    /\ pc = "idle"
    /\ done = 0
    /\ node = 0
    /\ sim_state = NewState
    /\ sim_player = "X"
    /\ best_child = 0
    /\ runs = 0
    /\ atCall = 0

\* game = Connect4(), and no call made yet
BoardStart ==
    LET made == Connect4Init(<<>>)
    IN  /\ heap = made.heap
        /\ game = made.obj
        /\ origin = NoObject
        /\ prev = NoObject
        /\ ret = NoObject
        /\ call = [col |-> 0, player |-> "", outcome |-> "none", advanced |-> FALSE]
        /\ pre = [recv |-> NewState, older |-> NewState]

BoardInit == BoardStart /\ script = <<>> /\ TreeIdle

\* The columns the caller of BoardSpec picks a legal move from
BoardChoices(state) ==
    LET moves == get_possible_moves(state)
    IN  IF MarkCount(state.board) < BoardFreePlies
        THEN {moves[i] : i \in 1..Len(moves)}
        ELSE {moves[1]}

\* game.make_move(col, player), the caller adopting the result when `advance`
Call(col, player, advance) ==
    LET res == make_move(heap, game, col, player)
        adopt == advance /\ res.outcome = "returned"
        live == IF adopt THEN <<prev, game, res.obj>> ELSE <<origin, prev, game, res.obj>>
        L == Distinct(Addresses(live), <<>>)
    IN  /\ heap' = LiveHeap(res.heap, L)
        /\ origin' = Renamed(L, IF adopt THEN prev ELSE origin)
        /\ prev' = Renamed(L, IF adopt THEN game ELSE prev)
        /\ game' = Renamed(L, IF adopt THEN res.obj ELSE game)
        /\ ret' = Renamed(L, res.obj)
        /\ call' = [col |-> col, player |-> player, outcome |-> res.outcome, advanced |-> adopt]
        /\ pre' = [recv |-> Val(heap, game), older |-> Val(heap, prev)]

\* A legal move: the game is not over, the column is one of get_possible_moves(),
\* the mover is the player whose turn it is.
Play ==
    /\ ~is_terminal(Val(heap, game))
    /\ \E col \in BoardChoices(Val(heap, game)) : Call(col, game.player, TRUE)
    /\ UNCHANGED <<script, treeVars>>

\* The columns of the calls that are no legal move
FullColumns(state) == {col \in 0..COLS-1 : Cell(state.board, 0, col) # Empty}

OutOfRange == {-8, -1, 7}

\* The arguments of the calls that are no legal move: a column out of range
\* or full, the wrong player, or a move on a finished game.
ProbeInputs(state) ==
    LET moves == get_possible_moves(state)
        legal == {moves[i] : i \in 1..Len(moves)}
    IN  ((OutOfRange \cup FullColumns(state)) \X {state.player})
        \cup ({moves[i] : i \in 1..(IF Len(moves) > 0 THEN 1 ELSE 0)} \X {Opponent(state.player)})
        \cup (IF is_terminal(state) THEN legal \X {state.player} ELSE {})

Probe ==
    /\ call.advanced \/ call.outcome = "none"
    /\ \E in \in ProbeInputs(Val(heap, game)) : Call(in[1], in[2], FALSE)
    /\ UNCHANGED <<script, treeVars>>

BoardNext == Play \/ Probe

BoardSpec == BoardInit /\ [][BoardNext]_vars

---------------------------------------------------------------------------
(* LineSpec: boards built by make_move calls that a script lists.  A line   *)
(* script fills the columns of one 4-cell window, from the left, each from  *)
(* the bottom up to the window's cell, with the player's mark in the cells  *)
(* of the window and a filler pattern, which has no line of its own, below  *)
(* them.  A fill script fills the whole board column by column, the marks   *)
(* of a column alternating from a first mark chosen per column.             *)

\* Every 4-cell window that fits on the board, by its geometry: a start cell
\* and one of the directions right, down, down-right, down-left
AllWindows == {w \in [r : 0..ROWS-1, c : 0..COLS-1, dr : {0, 1}, dc : {-1, 0, 1}] : /\ <<w.dr, w.dc>> \in {<<0, 1>>, <<1, 0>>, <<1, 1>>, <<1, -1>>} /\ w.r + 3 * w.dr \in 0..ROWS-1 /\ w.c + 3 * w.dc \in 0..COLS-1}

WindowCells(w) == {<<w.r + i * w.dr, w.c + i * w.dc>> : i \in 0..3}

\* The filler: columns in pairs, marks alternating upward and from pair to pair
Filler(v, r, c) == IF ((c \div 2) + r + v) % 2 = 0 THEN "X" ELSE "O"

\* The calls that fill column c from the bottom up to row `top`
ColumnCalls(w, p, v, c, top) == [i \in 1..(ROWS - top) |-> [col |-> c, player |-> IF <<ROWS - i, c>> \in WindowCells(w) THEN p ELSE Filler(v, ROWS - i, c)]]

RECURSIVE LineCalls(_, _, _, _)
LineCalls(w, p, v, c) ==
    LET rows == {cell[1] : cell \in {x \in WindowCells(w) : x[2] = c}}
    IN  IF rows = {} THEN <<>>
        ELSE ColumnCalls(w, p, v, c, Min(rows)) \o LineCalls(w, p, v, c + 1)

LineScript(w, p, v) == LineCalls(w, p, v, Min({cell[2] : cell \in WindowCells(w)}))

FillScript(first) == [k \in 1..(ROWS * COLS) |-> [col |-> (k - 1) \div ROWS, player |-> IF (((k - 1) % ROWS) + first[((k - 1) \div ROWS) + 1]) % 2 = 0 THEN "X" ELSE "O"]]

Scripts ==
    {LineScript(w, p, v) : w \in AllWindows, p \in Marks, v \in {0, 1}}
        \cup {FillScript(first) : first \in [1..COLS -> {0, 1}]}

LineInit == BoardStart /\ script \in Scripts /\ TreeIdle

\* The next call of the script, on the board the last one returned
Scripted ==
    /\ script # <<>>
    /\ Call(Head(script).col, Head(script).player, TRUE)
    /\ script' = Tail(script)
    /\ UNCHANGED treeVars

LineNext == Scripted

LineSpec == LineInit /\ [][LineNext]_vars

---------------------------------------------------------------------------
(* The search tree.  A Node is [state, player, children, visits, score,     *)
(* parent]; children lists Node ids, parent is a Node id or 0 for None.     *)

\* Node.__init__
NewNode(st, pl, parent) == [state |-> st, player |-> pl, children |-> <<>>, visits |-> 0, score |-> 0, parent |-> parent]

\* sum(child.visits for child in self.children)
RECURSIVE SumVisits(_, _)
SumVisits(ns, ids) == IF ids = <<>> THEN 0 ELSE ns[Head(ids)].visits + SumVisits(ns, Tail(ids))

\* math.log(total_visits + 1e-8), in units of 1e-8, for total_visits = 1, 2, .., 12
LogE8 == <<1, 69314719, 109861229, 138629436, 160943791, 179175947, 194591015, 207944154, 219722458, 230258509, 239789527, 248490665>>

\* The largest r in lo..hi with r * r <= n
RECURSIVE SqrtBetween(_, _, _)
SqrtBetween(n, lo, hi) ==
    IF lo = hi THEN lo
    ELSE LET mid == (lo + hi + 1) \div 2
         IN  IF mid * mid <= n THEN SqrtBetween(n, mid, hi) ELSE SqrtBetween(n, lo, mid - 1)

\* math.sqrt, rounded down
ISqrt(n) == SqrtBetween(n, 0, 46340)

\* ucb_score(node) in units of 1e-4, log_exploration_value being log8 * 1e-8:
\*   node.score / (node.visits + 1e-8) + math.sqrt(log_exploration_value / (node.visits + 1e-8))
\* With no visit the divisor is 1e-8: the root is that of log8 itself, and a
\* score other than 0 is out of all range.  For up to 12 visits in all, two
\* values are in the order, or equal, as the floating-point values are.
ucb_score(n, log8) ==
    IF n.visits = 0
    THEN (IF n.score > 0 THEN 2000000000 ELSE IF n.score < 0 THEN -2000000000 ELSE 0) + 10000 * ISqrt(log8)
    ELSE ((n.score * 10000) \div n.visits) + ISqrt(log8 \div n.visits)

\* max(ids, key): the first of the ids whose key is the greatest
FirstMax(ids, key) == ids[Min({i \in 1..Len(ids) : \A j \in 1..Len(ids) : key[j] <= key[i]})]

\* Node.select_child
select_child(ns, self) ==
    LET total_visits == SumVisits(ns, ns[self].children)
        log8 == IF total_visits # 0 THEN LogE8[total_visits] ELSE 0
    IN  FirstMax(ns[self].children, [i \in 1..Len(ns[self].children) |-> ucb_score(ns[ns[self].children[i]], log8)])

\* A variant of expand that gives the children the player of self
expand_keep_player(ns, self) ==
    LET possible_moves == get_possible_moves(ns[self].state)
        made == [i \in 1..Len(possible_moves) |-> NewNode(MoveValue(ns[self].state, possible_moves[i], ns[self].player), ns[self].player, self)]
    IN  [ns EXCEPT ![self].children = @ \o [i \in 1..Len(possible_moves) |-> Len(ns) + i]] \o made

\* A variant of expand that makes the children and leaves self.children as it was
expand_nothing(ns, self) == ns

\* A variant of expand that puts each new child in front: self.children.insert(0, child)
expand_reversed(ns, self) ==
    LET possible_moves == get_possible_moves(ns[self].state)
        made == [i \in 1..Len(possible_moves) |-> NewNode(MoveValue(ns[self].state, possible_moves[i], ns[self].player), Opponent(ns[self].player), self)]
    IN  [ns EXCEPT ![self].children = [i \in 1..Len(possible_moves) |-> Len(ns) + Len(possible_moves) + 1 - i] \o @] \o made

\* Node.expand: one new Node per possible move, appended to self.children
expand(ns, self) ==
    LET possible_moves == get_possible_moves(ns[self].state)
        made == [i \in 1..Len(possible_moves) |-> NewNode(MoveValue(ns[self].state, possible_moves[i], ns[self].player), Opponent(ns[self].player), self)]
    IN  [ns EXCEPT ![self].children = @ \o [i \in 1..Len(possible_moves) |-> Len(ns) + i]] \o made

\* A variant of backpropagate that does not go on to the parent
backpropagate_self(ns, self, score) == [ns EXCEPT ![self].visits = @ + 1, ![self].score = @ + score]

\* A variant of backpropagate that hands the parent the same score: backpropagate(score)
RECURSIVE backpropagate_same(_, _, _)
backpropagate_same(ns, self, score) ==
    LET ns2 == [ns EXCEPT ![self].visits = @ + 1, ![self].score = @ + score]
    IN  IF ns[self].parent # 0 THEN backpropagate_same(ns2, ns[self].parent, score) ELSE ns2

\* Node.backpropagate
RECURSIVE backpropagate(_, _, _)
backpropagate(ns, self, score) ==
    LET ns2 == [ns EXCEPT ![self].visits = @ + 1, ![self].score = @ + score]
    IN  IF ns[self].parent # 0 THEN backpropagate(ns2, ns[self].parent, -score) ELSE ns2

\* A variant of the selection loop that never runs: the node stays the root
Descend_stay(ns, n) == n

\* mcts: while node.children and not node.state.is_terminal(): node = node.select_child()
RECURSIVE Descend(_, _)
Descend(ns, n) ==
    IF ns[n].children # <<>> /\ ~is_terminal(ns[n].state) THEN Descend(ns, select_child(ns, n)) ELSE n

\* A variant of the final choice that takes the last of the most visited children
MostVisitedLast(ns, r) == ns[r].children[Max({i \in 1..Len(ns[r].children) : \A j \in 1..Len(ns[r].children) : ns[ns[r].children[j]].visits <= ns[ns[r].children[i]].visits})]

\* max(root.children, key=lambda node: node.visits)
MostVisited(ns, r) == FirstMax(ns[r].children, [i \in 1..Len(ns[r].children) |-> ns[ns[r].children[i]].visits])

\* The columns a rollout picks its next move from
RolloutChoices(moves, plies) == {moves[i] : i \in 1..(IF plies < RolloutFreePlies /\ RolloutWidth < Len(moves) THEN RolloutWidth ELSE IF plies < RolloutFreePlies THEN Len(moves) ELSE 1)}

---------------------------------------------------------------------------
(* Spec: play_game on a new tree.                                           *)
(*   "loop"      play_game, at `while not game.is_terminal()`               *)
(*   "iter"      mcts, at `for _ in range(iterations)`                      *)
(*   "simulate"  simulate, at `while not state.is_terminal()`                   *)
(*   "returned"  play_game, mcts having returned best_child                 *)
(*   "IndexError", "ValueError"  the exception that ended the program       *)

\* reset_tree / load_or_create_tree: root = Node(Connect4(), 'X')
Init ==
    /\ nodes = <<NewNode(NewState, "X", 0)>>
    /\ root = 1
    /\ pc = "loop"
    /\ done = 0
    /\ node = 0
    /\ sim_state = NewState
    /\ sim_player = "X"
    /\ best_child = 0
    /\ runs = 0
    /\ atCall = 0
    /\ BoardStart
    /\ script = <<>>

\* play_game: the game is not over, mcts(root, iterations) is called; the
\* model stops after `most` runs
CallMcts(most) ==
    /\ pc = "loop"
    /\ ~is_terminal(nodes[root].state)
    /\ runs < most
    /\ pc' = "iter"
    /\ done' = 0
    /\ atCall' = SumVisits(nodes, nodes[root].children)
    /\ UNCHANGED <<nodes, root, node, sim_state, sim_player, best_child, runs, boardVars>>

\* mcts: selection and expansion of one iteration, and the start of simulate;
\* expand()[0] of an empty list raises IndexError
Select(iterations) ==
    /\ pc = "iter"
    /\ done < iterations
    /\ \E reached \in {Descend(nodes, root)} :
          IF ~is_terminal(nodes[reached].state)
          THEN \E grown \in {expand(nodes, reached)} :
                  /\ nodes' = grown
                  /\ IF grown[reached].children = <<>>
                     THEN /\ pc' = "IndexError"
                          /\ UNCHANGED <<node, sim_state, sim_player>>
                     ELSE /\ pc' = "simulate"
                          /\ node' = grown[reached].children[1]
                          /\ sim_state' = grown[grown[reached].children[1]].state
                          /\ sim_player' = grown[grown[reached].children[1]].player
          ELSE /\ nodes' = nodes
               /\ node' = reached
               /\ sim_state' = nodes[reached].state
               /\ sim_player' = nodes[reached].player
               /\ pc' = "simulate"
    /\ UNCHANGED <<root, done, best_child, runs, atCall, boardVars>>

\* simulate: one move of the rollout
Rollout ==
    /\ pc = "simulate"
    /\ ~is_terminal(sim_state)
    /\ \E move \in RolloutChoices(get_possible_moves(sim_state), MarkCount(sim_state.board) - MarkCount(nodes[node].state.board)) :
          sim_state' = MoveValue(sim_state, move, sim_player)
    /\ sim_player' = Opponent(sim_player)
    /\ UNCHANGED <<nodes, root, pc, done, node, best_child, runs, atCall, boardVars>>

\* simulate returns state.evaluate(); mcts: node.backpropagate(score)
Backpropagate ==
    /\ pc = "simulate"
    /\ is_terminal(sim_state)
    /\ nodes' = backpropagate(nodes, node, evaluate(sim_state))
    /\ done' = done + 1
    /\ pc' = "iter"
    /\ UNCHANGED <<root, node, sim_state, sim_player, best_child, runs, atCall, boardVars>>

\* mcts returns max(root.children, ...); of an empty list max raises ValueError
Return(iterations) ==
    /\ pc = "iter"
    /\ done = iterations
    /\ IF nodes[root].children = <<>>
       THEN pc' = "ValueError" /\ UNCHANGED best_child
       ELSE pc' = "returned" /\ best_child' = MostVisited(nodes, root)
    /\ runs' = runs + 1
    /\ UNCHANGED <<nodes, root, done, node, sim_state, sim_player, atCall, boardVars>>

\* play_game: game = best_child.state; root = best_child
Adopt ==
    /\ pc = "returned"
    /\ root' = best_child
    /\ pc' = "loop"
    /\ UNCHANGED <<nodes, done, node, sim_state, sim_player, best_child, runs, atCall, boardVars>>

Next == CallMcts(MaxRuns) \/ Select(Iterations) \/ Rollout \/ Backpropagate \/ Return(Iterations) \/ Adopt

Spec == Init /\ [][Next]_vars

\* RunSpec: one call mcts(root, RunIterations) on the new root
RunNext == CallMcts(1) \/ Select(RunIterations) \/ Rollout \/ Backpropagate \/ Return(RunIterations)

RunSpec == Init /\ [][RunNext]_vars

---------------------------------------------------------------------------
(* GameSpec: play_game on a new tree, from the first run of mcts to the end *)
(* of the game.                                                             *)
(*   "saved"     play_game, past root.backpropagate(score) and save_tree    *)

\* play_game: the loop is left, score = game.evaluate(); root.backpropagate(score)
Finish ==
    /\ pc = "loop"
    /\ is_terminal(nodes[root].state)
    /\ nodes' = backpropagate(nodes, root, evaluate(nodes[root].state))
    /\ pc' = "saved"
    /\ UNCHANGED <<root, done, node, sim_state, sim_player, best_child, runs, atCall, boardVars>>

\* simulate: one move of the rollout
GameRollout ==
    /\ pc = "simulate"
    /\ ~is_terminal(sim_state)
    /\ \E move \in RolloutChoices(get_possible_moves(sim_state), IF runs < GameFreeRuns THEN MarkCount(sim_state.board) - MarkCount(nodes[node].state.board) ELSE RolloutFreePlies) :
          sim_state' = MoveValue(sim_state, move, sim_player)
    /\ sim_player' = Opponent(sim_player)
    /\ UNCHANGED <<nodes, root, pc, done, node, best_child, runs, atCall, boardVars>>

GameNext ==
    \/ CallMcts(ROWS * COLS + 1)
    \/ Select(GameIterations)
    \/ GameRollout
    \/ Backpropagate
    \/ Return(GameIterations)
    \/ Adopt
    \/ Finish

GameSpec == Init /\ [][GameNext]_vars

---------------------------------------------------------------------------
(* ExpandSpec: a game played by legal moves, as in BoardSpec, and one call  *)
(* Node(game, player).expand() on a position of it that is not terminal.    *)

\* Node(game, player).expand()
ExpandGame ==
    /\ pc = "idle"
    /\ ~is_terminal(Val(heap, game))
    /\ \E player \in Marks : nodes' = expand(<<NewNode(Val(heap, game), player, 0)>>, 1)
    /\ root' = 1
    /\ pc' = "expanded"
    /\ UNCHANGED <<done, node, sim_state, sim_player, best_child, runs, atCall, boardVars>>

ExpandNext == (pc = "idle" /\ Play) \/ ExpandGame

ExpandSpec == BoardInit /\ [][ExpandNext]_vars

---------------------------------------------------------------------------
(* Claims about the board, checked under BoardSpec *)

SeqRange(q) == {q[i] : i \in 1..Len(q)}

Called == call.outcome # "none"

\* The receiver of the last call and the object the receiver was made from
Receiver == IF call.advanced THEN prev ELSE game

Predecessor == IF call.advanced THEN origin ELSE prev

ColumnFull(board, col) == \A r \in 0..ROWS-1 : Cell(board, r, col) # Empty

\* C1 (as claimed): a make_move call whose column is outside 0..6, or whose
\* column is already full (top cell non-empty), ends in an IllegalMoveError.
C1_IllegalMoveRaises ==
    Called /\ (call.col \notin 0..6 \/ Cell(pre.recv.board, 0, call.col) # Empty)
        => call.outcome = "IllegalMoveError"

\* C5: on every board reached by legal play get_possible_moves() lists, in
\* strictly ascending order, exactly the columns whose top cell is empty; the
\* list is empty exactly when all 42 cells are occupied; on the empty board it
\* is 0,1,2,3,4,5,6.
C5_PossibleMoves ==
    LET state == Val(heap, game)
        moves == get_possible_moves(state)
    IN  /\ \A i, j \in 1..Len(moves) : i < j => moves[i] < moves[j]
        /\ SeqRange(moves) = {col \in 0..6 : Cell(state.board, 0, col) = Empty}
        /\ (moves = <<>>) <=> (MarkCount(state.board) = 42)
        /\ state.board = EmptyBoard => moves = <<0, 1, 2, 3, 4, 5, 6>>

\* C5 witness: legal play has filled the board, and the list is empty.
C5_Witness ==
    /\ MarkCount(Val(heap, game).board) = 42
    /\ get_possible_moves(Val(heap, game)) = <<>>

\* C6: a make_move(c, p) call with c in get_possible_moves() of the receiver
\* returns a board that differs from the receiver's in one cell only, the
\* lowest empty cell of column c, which holds p; the returned player is the
\* opponent of p.
C6_LegalMoveEffect ==
    Called /\ call.col \in SeqRange(get_possible_moves(pre.recv))
        => /\ call.outcome = "returned"
           /\ LET row == Max({r \in 0..ROWS-1 : Cell(pre.recv.board, r, call.col) = Empty})
              IN  Val(heap, ret).board = [pre.recv.board EXCEPT ![row + 1][call.col + 1] = call.player]
           /\ ret.player = Opponent(call.player)

\* C6 witness: a mark dropped on top of another by the player whose turn it was not.
C6_Witness ==
    /\ Called
    /\ call.col \in 0..6
    /\ call.outcome = "returned"
    /\ call.player # pre.recv.player
    /\ Cell(pre.recv.board, 5, call.col) # Empty
    /\ Cell(pre.recv.board, 0, call.col) = Empty

\* C7: after a make_move call the receiver holds what it held before the
\* call, and so does the object the receiver was itself made from (the later
\* move on the receiver did not reach it); no two of the objects share a row.
C7_ReceiverUntouched ==
    Called
        => /\ Val(heap, Receiver) = pre.recv
           /\ Val(heap, Predecessor) = pre.older
           /\ SeqRange(Receiver.board) \cap SeqRange(ret.board) = {}
           /\ SeqRange(Predecessor.board) \cap SeqRange(ret.board) = {}
           /\ SeqRange(Predecessor.board) \cap SeqRange(Receiver.board) = {}

\* C7 witness: a second move in a row, made on the result of the first, has
\* put a mark on the board.
C7_Witness ==
    /\ call.advanced
    /\ origin # NoObject
    /\ Val(heap, ret).board # pre.recv.board
    /\ pre.recv.board # pre.older.board

Gravity(board) == \A col \in 0..COLS-1 : \A r \in 0..ROWS-2 : Cell(board, r, col) # Empty => Cell(board, r + 1, col) # Empty

\* C8: in every board make_move produced no occupied cell lies above an empty
\* cell of its column, and a column's top cell is occupied exactly when all 6
\* cells of the column are.
C8_Gravity ==
    \A obj \in {origin, prev, game, ret} :
        obj # NoObject
            => /\ Gravity(Val(heap, obj).board)
               /\ \A col \in 0..COLS-1 : Cell(Val(heap, obj).board, 0, col) # Empty <=> ColumnFull(Val(heap, obj).board, col)

\* C8 witness: a returned board with a full column, a column filled in part and an empty column.
C8_Witness ==
    /\ call.outcome = "returned"
    /\ \E a, b, c \in 0..COLS-1 :
          /\ ColumnFull(Val(heap, ret).board, a)
          /\ Cell(Val(heap, ret).board, 5, b) # Empty /\ Cell(Val(heap, ret).board, 0, b) = Empty
          /\ Cell(Val(heap, ret).board, 5, c) = Empty

---------------------------------------------------------------------------
(* Claims about line detection, checked under LineSpec *)

HasLine(board, mark) == \E w \in AllWindows : \A cell \in WindowCells(w) : Cell(board, cell[1], cell[2]) = mark

LinesOnly(board, dr, dc) == \A w \in AllWindows : (\E mark \in Marks : \A cell \in WindowCells(w) : Cell(board, cell[1], cell[2]) = mark) => w.dr = dr /\ w.dc = dc

\* C9: is_terminal() is true exactly when four equal marks fill one 4-cell
\* window of the board (a row, a column, or a diagonal of either slope), or
\* all 42 cells are occupied.
C9_TerminalIffLineOrFull ==
    LET board == Val(heap, game).board
    IN  is_terminal(Val(heap, game)) <=> (HasLine(board, "X") \/ HasLine(board, "O") \/ MarkCount(board) = ROWS * COLS)

\* C9 witness: a board that is not full whose only lines run down-left, one
\* of them from the top right corner.
C9_Witness ==
    LET board == Val(heap, game).board
    IN  /\ is_terminal(Val(heap, game))
        /\ MarkCount(board) < ROWS * COLS
        /\ LinesOnly(board, 1, -1)
        /\ \A i \in 0..3 : Cell(board, i, 6 - i) = Cell(board, 0, 6)

\* C10: evaluate() is +1 when the lines on the board are of 'X', -1 when they
\* are of 'O', 0 when there is no line, a full board included; a result other
\* than 0 implies is_terminal(), and is_terminal() with a result of 0 is
\* exactly a full board without a line.
C10_Evaluate ==
    LET state == Val(heap, game)
        x == HasLine(state.board, "X")
        o == HasLine(state.board, "O")
    IN  /\ evaluate(state) \in {-1, 0, 1}
        /\ x /\ ~o => evaluate(state) = 1
        /\ o /\ ~x => evaluate(state) = -1
        /\ x \/ o => evaluate(state) # 0
        /\ ~x /\ ~o => evaluate(state) = 0
        /\ evaluate(state) # 0 => is_terminal(state)
        /\ (is_terminal(state) /\ evaluate(state) = 0) <=> (MarkCount(state.board) = ROWS * COLS /\ ~x /\ ~o)

\* C10 witness: a full board without a line, which is terminal and evaluates to 0.
C10_Witness ==
    LET state == Val(heap, game)
    IN  /\ MarkCount(state.board) = ROWS * COLS
        /\ ~HasLine(state.board, "X") /\ ~HasLine(state.board, "O")
        /\ is_terminal(state)
        /\ evaluate(state) = 0

---------------------------------------------------------------------------
(* Claims about the search, checked under Spec and RunSpec *)

\* The iterations of a run of n in which the root itself is terminal: the
\* root's state never changes, so it is all of them or none
TerminalIterations(n) == IF is_terminal(nodes[root].state) THEN n ELSE 0

\* C2 (as claimed): when a run of mcts has returned, the visits of the root's
\* children sum to the number of iterations less those in which the root was
\* terminal, for a new root and for an adopted one.
C2_VisitsSumToIterations ==
    pc = "returned" => SumVisits(nodes, nodes[root].children) = Iterations - TerminalIterations(Iterations)

\* C2 (amended): when a run of mcts has returned, the visits of the root's
\* children sum to what they summed to when the run was called plus the number
\* of iterations less those in which the root was terminal; for the new root
\* of the first run that is the number of iterations itself.
C2_VisitsGrowByIterations ==
    pc = "returned"
        => /\ SumVisits(nodes, nodes[root].children) = atCall + Iterations - TerminalIterations(Iterations)
           /\ runs = 1 => SumVisits(nodes, nodes[root].children) = Iterations

\* C2 witness: a run on an adopted root whose children had visits already has returned.
C2_Witness ==
    /\ pc = "returned"
    /\ runs = 2
    /\ nodes[root].parent # 0
    /\ atCall > 0

\* The Nodes from n up to the parentless root
RECURSIVE PathUp(_, _)
PathUp(ns, n) == IF n = 0 THEN <<>> ELSE <<n>> \o PathUp(ns, ns[n].parent)

\* C3: one backpropagate(s) call on a Node adds 1 to the visits of the Node
\* and of each ancestor up to the parentless root, adds s to the Node's score
\* and (-1)^k * s to the score of the ancestor k levels above it, and changes
\* nothing else of any Node.
C3_BackpropagateEffect ==
    [][pc = "simulate" /\ pc' = "iter"
          => LET s == evaluate(sim_state)
                 path == PathUp(nodes, node)
             IN  /\ Len(nodes') = Len(nodes)
                 /\ \A n \in 1..Len(nodes) :
                       LET at == {k \in 1..Len(path) : path[k] = n}
                       IN  IF at = {} THEN nodes'[n] = nodes[n]
                           ELSE nodes'[n] = [nodes[n] EXCEPT !.visits = @ + 1, !.score = @ + (IF (Min(at) - 1) % 2 = 0 THEN s ELSE -s)]]_vars

\* C3 witness: a backpropagate(-1) call has been made on a Node three levels
\* below the parentless root.
C3_Witness ==
    /\ pc = "iter"
    /\ done > 0
    /\ Len(PathUp(nodes, node)) >= 4
    /\ nodes[node].visits = 1
    /\ nodes[node].score = -1

\* C4: a run of mcts on a root whose state is not terminal returns a child of
\* the root that no child has more visits than and no earlier child as many;
\* the board of the child at place i is the root's board with the mark of the
\* root's player dropped in the i-th legal column.
C4_MostVisitedFirst ==
    pc = "returned"
        => LET kids == nodes[root].children
               moves == get_possible_moves(nodes[root].state)
           IN  \E i \in 1..Len(kids) :
                  /\ kids[i] = best_child
                  /\ \A j \in 1..Len(kids) : nodes[kids[j]].visits <= nodes[best_child].visits
                  /\ \A j \in 1..(i - 1) : nodes[kids[j]].visits < nodes[best_child].visits
                  /\ i <= Len(moves)
                  /\ LET row == Max({r \in 0..ROWS-1 : Cell(nodes[root].state.board, r, moves[i]) = Empty})
                     IN  nodes[best_child].state.board = [nodes[root].state.board EXCEPT ![row + 1][moves[i] + 1] = nodes[root].player]

\* C4 witness: the run returned a child that is not the first, and a later
\* child has as many visits.
C4_Witness ==
    /\ pc = "returned"
    /\ best_child # nodes[root].children[1]
    /\ \E j \in 1..Len(nodes[root].children) :
          /\ nodes[root].children[j] > best_child
          /\ nodes[nodes[root].children[j]].visits = nodes[best_child].visits

---------------------------------------------------------------------------
(* Claims about expand, checked under ExpandSpec *)

\* The columns whose top cell is empty, and the i-th of them from the left
OpenColumns(board) == {c \in 0..COLS-1 : Cell(board, 0, c) = Empty}

RECURSIVE NthOpen(_, _)
NthOpen(cols, i) == IF i = 1 THEN Min(cols) ELSE NthOpen(cols \ {Min(cols)}, i - 1)

\* The board with the mark in the lowest empty cell of the column
Dropped(board, col, mark) ==
    LET row == Max({r \in 0..ROWS-1 : Cell(board, r, col) = Empty})
    IN  [board EXCEPT ![row + 1][col + 1] = mark]

\* C11: expand() on a Node without children whose state is not terminal makes
\* one child per column with an empty top cell, in ascending order of the
\* columns, each a new Node; child i holds the board with the Node's player's
\* mark dropped in the i-th such column, has the opponent of the Node's
\* player as its player, the Node as its parent, visits 0, score 0 and no
\* children; the Node's own state and statistics stay as they were.
C11_ExpandChildren ==
    pc = "expanded"
        => LET self == nodes[1]
               kids == self.children
               cols == OpenColumns(Val(heap, game).board)
           IN  /\ self.state = Val(heap, game)
               /\ self.visits = 0 /\ self.score = 0 /\ self.parent = 0
               /\ Len(kids) = Cardinality(cols)
               /\ Len(nodes) = 1 + Len(kids)
               /\ \A i, j \in 1..Len(kids) : i # j => kids[i] # kids[j]
               /\ \A i \in 1..Len(kids) :
                     /\ kids[i] \in 2..Len(nodes)
                     /\ nodes[kids[i]].state.board = Dropped(self.state.board, NthOpen(cols, i), self.player)
                     /\ nodes[kids[i]].state.player = Opponent(self.player)
                     /\ nodes[kids[i]].player = (IF self.player = "X" THEN "O" ELSE "X")
                     /\ nodes[kids[i]].parent = 1
                     /\ nodes[kids[i]].visits = 0
                     /\ nodes[kids[i]].score = 0
                     /\ nodes[kids[i]].children = <<>>

\* C11 witness: a Node of player 'O' on a board with a full column and a
\* partly filled one has been expanded, into fewer than seven children.
C11_Witness ==
    /\ pc = "expanded"
    /\ nodes[1].player = "O"
    /\ Len(nodes[1].children) \in 2..6
    /\ \E c \in OpenColumns(nodes[1].state.board) : Cell(nodes[1].state.board, 5, c) # Empty

---------------------------------------------------------------------------
(* Claims about the iterations of the search, checked under Spec *)

\* C12: across the runs of mcts on one tree no Node object is lost, and once
\* the children of a Node are there they stay the same Nodes in the same
\* order: a Node is expanded at most once.
C12_ExpandedOnce ==
    [][/\ Len(nodes') >= Len(nodes)
       /\ \A n \in 1..Len(nodes) : nodes[n].children # <<>> => nodes'[n].children = nodes[n].children]_vars

\* C12 witness: in a second run, an iteration has gone through an adopted
\* root and a child of it, both expanded before, and expanded a Node below them.
C12_Witness ==
    /\ pc = "simulate"
    /\ runs = 1
    /\ Len(PathUp(nodes, node)) >= 4
    /\ nodes[nodes[node].parent].visits > 0
    /\ nodes[node].visits = 0

\* C13: no iteration of mcts breaks a precondition.  The selection loop
\* calls select_child only on Nodes that have children; expand is called only
\* on a Node without children whose state is not terminal, and gives it at
\* least one child, so that expand()[0] is there and no IndexError ends the
\* run; each child's board, and each board of a rollout, is the board before
\* with the mover's mark dropped in a column whose top cell was empty.
C13_PreconditionsHold ==
    [][/\ pc' # "IndexError"
       /\ (pc = "iter" /\ pc' = "simulate")
             => LET reached == IF nodes' # nodes THEN nodes'[node'].parent ELSE node'
                    path == PathUp(nodes, reached)
                IN  /\ \A k \in 2..Len(path) : nodes[path[k]].children # <<>>
                    /\ \E k \in 1..Len(path) : path[k] = root
                    /\ IF nodes' = nodes THEN is_terminal(nodes[reached].state)
                       ELSE /\ nodes[reached].children = <<>>
                            /\ ~is_terminal(nodes[reached].state)
                            /\ nodes'[reached].children # <<>>
                            /\ \A i \in 1..Len(nodes'[reached].children) :
                                  \E c \in OpenColumns(nodes[reached].state.board) :
                                     nodes'[nodes'[reached].children[i]].state.board = Dropped(nodes[reached].state.board, c, nodes[reached].player)
       /\ (pc = "simulate" /\ pc' = "simulate")
             => \E c \in OpenColumns(sim_state.board) : sim_state'.board = Dropped(sim_state.board, c, sim_player)]_vars

\* C13 witness: a rollout has gone on from a board with a full column.
C13_Witness ==
    /\ pc = "simulate"
    /\ ~is_terminal(sim_state)
    /\ MarkCount(sim_state.board) > MarkCount(nodes[node].state.board)
    /\ Cardinality(OpenColumns(sim_state.board)) < COLS

\* C14: simulate terminates and leaves the tree alone.  While a rollout runs,
\* its board holds the Node's marks and one more per move made, no more moves
\* than the Node's board has empty cells, the mover alternating from the
\* Node's player; a board that is not terminal has a column to move in; each
\* move adds one mark and changes no Node; the rollout ends on a terminal
\* board and hands on its evaluate(), 1 for a line of 'X', -1 for a line of
\* 'O', 0 for none, the Node's state and children being as before.
C14_SimulateTerminates ==
    [][/\ pc = "simulate"
             => LET plies == MarkCount(sim_state.board) - MarkCount(nodes[node].state.board)
                IN  /\ plies \in 0..(ROWS * COLS - MarkCount(nodes[node].state.board))
                    /\ sim_player = (IF plies % 2 = 0 THEN nodes[node].player ELSE IF nodes[node].player = "X" THEN "O" ELSE "X")
                    /\ ~is_terminal(sim_state) => OpenColumns(sim_state.board) # {}
       /\ (pc = "simulate" /\ pc' = "simulate")
             => /\ nodes' = nodes /\ node' = node
                /\ ~(HasLine(sim_state.board, "X") \/ HasLine(sim_state.board, "O"))
                /\ MarkCount(sim_state'.board) = MarkCount(sim_state.board) + 1
                /\ \E c \in OpenColumns(sim_state.board) : sim_state'.board = Dropped(sim_state.board, c, sim_player)
       /\ (pc = "simulate" /\ pc' = "iter")
             => /\ HasLine(sim_state.board, "X") \/ HasLine(sim_state.board, "O") \/ MarkCount(sim_state.board) = ROWS * COLS
                /\ nodes'[node].score - nodes[node].score \in {-1, 0, 1}
                /\ nodes'[node].score - nodes[node].score =
                      (IF HasLine(sim_state.board, "X") THEN 1 ELSE IF HasLine(sim_state.board, "O") THEN -1 ELSE 0)
                /\ nodes'[node].state = nodes[node].state
                /\ nodes'[node].children = nodes[node].children
                /\ nodes'[node].visits = nodes[node].visits + 1]_vars

\* C14 witness: a rollout of seven moves or more has reached a board with a
\* line of 'O', from a Node two levels or more below the parentless root.
C14_Witness ==
    /\ pc = "simulate"
    /\ HasLine(sim_state.board, "O")
    /\ MarkCount(sim_state.board) - MarkCount(nodes[node].state.board) >= 7
    /\ Len(PathUp(nodes, node)) >= 3

---------------------------------------------------------------------------
(* TerminalSpec: one call mcts(root, Iterations) on a new Node whose state  *)
(* is terminal: a board with one line of four, or a full board without one. *)

\* The state after the make_move calls of a script, each board being worked
\* out before the next call
RECURSIVE Played(_, _)
Played(state, calls) ==
    IF calls = <<>> THEN state
    ELSE LET made == MoveValue(state, Head(calls).col, Head(calls).player)
         IN  IF made.player \in Marks /\ MarkCount(made.board) >= 0 THEN Played(made, Tail(calls)) ELSE made

\* The states the root of TerminalSpec holds
TerminalStates ==
    {Played(NewState, LineScript(w, p, v)) : w \in AllWindows, p \in Marks, v \in {0, 1}}
        \cup {st \in {Played(NewState, FillScript(first)) : first \in [1..COLS -> {0, 1}]} : ~HasLine(st.board, "X") /\ ~HasLine(st.board, "O")}

\* root = Node(state, state.player), and mcts(root, Iterations) called
TerminalInit ==
    /\ \E st \in TerminalStates : nodes = <<NewNode(st, st.player, 0)>>
    /\ root = 1
    /\ pc = "iter"
    /\ done = 0
    /\ node = 0
    /\ sim_state = NewState
    /\ sim_player = "X"
    /\ best_child = 0
    /\ runs = 0
    /\ atCall = 0
    /\ BoardStart
    /\ script = <<>>

TerminalNext == Select(Iterations) \/ Backpropagate \/ Return(Iterations)

TerminalSpec == TerminalInit /\ [][TerminalNext]_vars

\* evaluate() of a board whose lines are all of one mark
LineScore(board) == IF HasLine(board, "X") THEN 1 ELSE IF HasLine(board, "O") THEN -1 ELSE 0

\* C15: in mcts(root, N) on a root without children whose state is terminal,
\* every iteration lands on the root: no Node is made and the root's children
\* stay empty, each iteration adds 1 to the root's visits and evaluate() of
\* its state to its score, N and N * evaluate() in all, and the final choice
\* among no children ends the run in an error, no Node being returned.
C15_TerminalRoot ==
    /\ Len(nodes) = 1
    /\ nodes[1].children = <<>>
    /\ nodes[1].visits = done
    /\ nodes[1].score = done * LineScore(nodes[1].state.board)
    /\ pc \in {"iter", "simulate", "ValueError"}
    /\ best_child = 0
    /\ pc = "simulate" => node = 1 /\ sim_state = nodes[1].state
    /\ pc = "ValueError" => done = Iterations /\ nodes[1].visits = Iterations /\ nodes[1].score = Iterations * LineScore(nodes[1].state.board)

\* C15 witness: the run on a full board without a line has ended in the
\* error; so has the run on a board with a line of 'O'.
C15_Witness ==
    /\ pc = "ValueError"
    /\ MarkCount(nodes[1].state.board) = ROWS * COLS
    /\ nodes[1].visits = Iterations
    /\ nodes[1].score = 0

---------------------------------------------------------------------------
(* Claims about the statistics of the tree, checked under Spec and RunSpec *)

\* The Nodes from n up to the Node r, r included; up to the parentless root
\* where r is not above n
RECURSIVE PathTo(_, _, _)
PathTo(ns, n, r) == IF n = 0 THEN <<>> ELSE IF n = r THEN <<n>> ELSE <<n>> \o PathTo(ns, ns[n].parent, r)

\* C16: an iteration of mcts(root, N) adds 1 to the visits of the Nodes on
\* the path from the active Node up to the root passed to mcts, and leaves
\* the visits and the score of every other Node, the former ancestors of an
\* adopted root among them, as they were.
C16_StatisticsInsideRoot ==
    [][pc = "simulate" /\ pc' = "iter"
          => LET path == PathTo(nodes, node, root)
             IN  \A n \in 1..Len(nodes) :
                    IF \E k \in 1..Len(path) : path[k] = n
                    THEN nodes'[n].visits = nodes[n].visits + 1
                    ELSE nodes'[n].visits = nodes[n].visits /\ nodes'[n].score = nodes[n].score]_vars

\* C16 (amended): an iteration of mcts(root, N) adds 1 to the visits of the
\* Nodes on the path from the active Node up to the parentless root of the
\* whole tree, which passes through the root passed to mcts and, for an
\* adopted root, goes on through its former ancestors; it leaves the visits
\* and the score of every Node off that path as they were.
C16_StatisticsOnPathToTop ==
    [][pc = "simulate" /\ pc' = "iter"
          => LET inside == PathTo(nodes, node, root)
                 above == IF nodes[root].parent = 0 THEN <<>> ELSE PathTo(nodes, nodes[root].parent, 0)
             IN  /\ inside[Len(inside)] = root
                 /\ \A n \in 1..Len(nodes) :
                       IF \E k \in 1..Len(inside \o above) : (inside \o above)[k] = n
                       THEN nodes'[n].visits = nodes[n].visits + 1
                       ELSE nodes'[n].visits = nodes[n].visits /\ nodes'[n].score = nodes[n].score]_vars

\* C16 witness: an iteration of a run on an adopted root is complete, and the
\* visits of the root's parent, which is not in the root's tree, have grown.
C16_Witness ==
    /\ pc = "iter"
    /\ runs = 1
    /\ done > 0
    /\ nodes[root].parent = 1
    /\ nodes[1].visits = Iterations + done

\* C17: a rollout won by 'X' changes the score of a Node by the same amount
\* whichever Node below it the rollout started from.  A Node with one visit
\* whose first child has one visit and score 1 has been through one rollout
\* so far, started from that child and won by 'X', which took its score from
\* 0 to what it is now; the next rollout won by 'X' that is backpropagated
\* through the Node from below changes its score by that amount again.
C17_FixedPerspective ==
    [][(pc = "simulate" /\ pc' = "iter" /\ HasLine(sim_state.board, "X"))
          => LET path == PathUp(nodes, node)
             IN  \A k \in 2..Len(path) :
                    (/\ nodes[path[k]].visits = 1
                     /\ nodes[nodes[path[k]].children[1]].visits = 1
                     /\ nodes[nodes[path[k]].children[1]].score = 1)
                        => nodes'[path[k]].score - nodes[path[k]].score = nodes[path[k]].score]_vars

---------------------------------------------------------------------------
(* Claims about the game loop, checked under GameSpec *)

\* A board with a line of four or without an empty cell
Over(board) == HasLine(board, "X") \/ HasLine(board, "O") \/ MarkCount(board) = ROWS * COLS

\* What holds at every point of play_game: no exception has ended it, the
\* root of a run is not terminal, the root holds one mark per run made, the
\* Node a run returns is a child of the root with one mark more, and a step
\* is there to take until the tree is saved.
GameInvariant ==
    /\ pc \in {"loop", "iter", "simulate", "returned", "saved"}
    /\ runs <= ROWS * COLS
    /\ pc \in {"iter", "simulate", "returned"} => ~Over(nodes[root].state.board)
    /\ pc \in {"loop", "iter", "simulate", "saved"} => MarkCount(nodes[root].state.board) = runs
    /\ pc = "returned"
          => /\ nodes[best_child].parent = root
             /\ MarkCount(nodes[best_child].state.board) = MarkCount(nodes[root].state.board) + 1
             /\ MarkCount(nodes[best_child].state.board) = runs
    /\ pc = "iter" => done <= GameIterations
    /\ (pc = "simulate" /\ ~Over(sim_state.board)) => OpenColumns(sim_state.board) # {}
    /\ pc = "saved" => Over(nodes[root].state.board)

\* What is left to do: the empty cells of the root's board, the steps of the
\* run under way, the iterations of it, the empty cells of the rollout's board
StepsLeft ==
    LET cells == ROWS * COLS
        ofRun == CASE pc = "loop" -> (GameIterations + 2) * (cells + 2) - 1
                   [] pc = "iter" -> (GameIterations - done + 1) * (cells + 2) - 1
                   [] pc = "simulate" -> (GameIterations - done) * (cells + 2) + (cells - MarkCount(sim_state.board))
                   [] OTHER -> 0
    IN  IF pc = "saved" THEN 0
        ELSE 1 + (cells - MarkCount(nodes[root].state.board)) * (GameIterations + 2) * (cells + 2) + ofRun

\* C18: play_game on a new tree ends.  mcts is never called on a root whose
\* state is terminal; each run returns a child of its root with one mark more,
\* so that after at most 42 runs a terminal position is the root; then
\* backpropagate(evaluate()) is called on that Node, once, and nothing more
\* is done.  Every step of the program takes from what is left to do, which
\* is never less than nothing, so that the steps come to an end.
C18_GameEnds ==
    [][/\ GameInvariant /\ GameInvariant'
       /\ StepsLeft' < StepsLeft
       /\ StepsLeft' >= 0
       /\ pc' = "saved"
             => /\ Over(nodes[root].state.board)
                /\ nodes'[root].visits = nodes[root].visits + 1
                /\ nodes'[root].score = nodes[root].score + LineScore(nodes[root].state.board)
                /\ \A n \in 1..Len(nodes) : nodes'[n].children = nodes[n].children /\ nodes'[n].state = nodes[n].state]_vars

\* C18 witness: a game of seven runs or more is over, won by a line, and
\* the final backpropagate is done.
C18_Witness ==
    /\ pc = "saved"
    /\ runs >= 7
    /\ nodes[root].visits >= 2
    /\ LineScore(nodes[root].state.board) # 0

---------------------------------------------------------------------------
(* Claims about the shape of the tree, checked under Spec and RunSpec *)

\* The number of cells of a board that hold the mark
CountOf(board, mark) == Cardinality({<<r, c>> \in (0..ROWS-1) \X (0..COLS-1) : Cell(board, r, c) = mark})

\* The marks alternate from 'X', and it is the turn of the player
InTurn(board, player) ==
    LET more == CountOf(board, "X") - CountOf(board, "O")
    IN  /\ more \in {0, 1}
        /\ player = "X" <=> more = 0

\* C19: in the tree grown from Node(Connect4(), 'X') the marks of every
\* Node's board alternate from 'X': there are as many 'X' as 'O' or one more,
\* the Node's player is 'X' exactly when there are as many, the Node's player
\* is its state's player, and a child's player is not its parent's; the
\* boards of a rollout alternate in the same way, the mover being 'X' exactly
\* when there are as many 'X' as 'O'.
C19_TurnConsistency ==
    /\ \A n \in 1..Len(nodes) :
          /\ InTurn(nodes[n].state.board, nodes[n].player)
          /\ nodes[n].player = nodes[n].state.player
          /\ nodes[n].parent # 0 => nodes[n].player # nodes[nodes[n].parent].player
    /\ pc = "simulate" => InTurn(sim_state.board, sim_player)

\* C19 witness: a rollout from a Node of player 'O' three levels below the
\* first root has made an odd number of moves, five or more.
C19_Witness ==
    /\ pc = "simulate"
    /\ Len(PathUp(nodes, node)) = 4
    /\ nodes[node].player = "O"
    /\ sim_player = "X"
    /\ MarkCount(sim_state.board) >= 8

\* The visits of a Node that are not visits of a child of it
OwnVisits(n) == nodes[n].visits - SumVisits(nodes, nodes[n].children)

\* The visits of the Nodes add up: every Node with children has the visits
\* of its children summed, or one more, the first root has them exactly, and
\* below a Node without visits no Node has visits.
VisitsAddUp ==
    /\ \A n \in 1..Len(nodes) :
          /\ nodes[n].children # <<>> => OwnVisits(n) \in {0, 1}
          /\ (nodes[n].parent # 0 /\ nodes[nodes[n].parent].visits = 0) => nodes[n].visits = 0
    /\ nodes[1].parent = 0
    /\ nodes[1].children # <<>> => OwnVisits(1) = 0

\* C20: while only the iterations of mcts have changed the tree grown from
\* the new root, the visits of the Nodes add up, and a Node whose state is
\* terminal has no children: a Node is made without children, no Node's state
\* changes, and children are given only to a Node whose state is not terminal.
C20_VisitBookkeeping ==
    [][pc' # "saved"
          => /\ VisitsAddUp /\ VisitsAddUp'
             /\ \A n \in 1..Len(nodes) :
                   /\ nodes'[n].state = nodes[n].state
                   /\ nodes'[n].children # nodes[n].children => nodes[n].children = <<>> /\ ~Over(nodes[n].state.board)
             /\ \A n \in (Len(nodes) + 1)..Len(nodes') : nodes'[n].children = <<>>]_vars

\* C20 witness: the tree holds a Node with children that has one visit of its
\* own, a Node below the first root with children and no visit of its own, a
\* Node without visits, and a terminal Node that iterations have visited.
C20_Witness ==
    /\ pc = "loop"
    /\ \E n \in 2..Len(nodes) : nodes[n].children # <<>> /\ OwnVisits(n) = 1
    /\ \E n \in 2..Len(nodes) : nodes[n].children # <<>> /\ OwnVisits(n) = 0
    /\ \E n \in 2..Len(nodes) : nodes[n].visits = 0
    /\ \E n \in 2..Len(nodes) : Over(nodes[n].state.board) /\ nodes[n].visits >= 2

=============================================================================
